---- MODULE Spec2Model ----
(***************************************************************************)
(* Flappy-Birb: the game-state engine of src/src/state.ts and              *)
(* src/src/collision.ts as a state machine.                                *)
(*                                                                         *)
(* Numbers.  The program computes in IEEE doubles; every length and        *)
(* velocity below is an integer count of 1/1000 pixel (Scale), so that     *)
(* GRAVITY = 1.5 px is 1500, the pipe step 0.12 px/ms * dt is 120 * dt and  *)
(* the bounce magnitude 6 + (time % 1000)/1000 * 6 px is                   *)
(* 6000 + 6 * (time % 1000), all exact.  Times are integer milliseconds.   *)
(*                                                                         *)
(* Optional fields (invincibleUntil?, won?, winAt?) are sequences of       *)
(* length 0 (undefined) or 1 (the value).                                  *)
(***************************************************************************)
EXTENDS Integers, Sequences, FiniteSets, TLC

\* ---------------------------------------------------------------- constants
\* Viewport (type.ts)
CANVAS_WIDTH == 600000
CANVAS_HEIGHT == 400000

\* Birb (type.ts)
WIDTH == 42000
HEIGHT == 30000
BIRB_LIVES == 3

\* Constants (type.ts)
PIPE_WIDTH == 60000
TICK_RATE_MS == 30
JUMP_VELOCITY == 10000
GRAVITY == 1500
MAX_FALL_RATE == 18000
INVINCIBLE_MS == 1000
BOUNCE_MIN == 6000
BOUNCE_MAX == 12000
\* 0.12 px per ms, in model units per ms
PIPE_SPEED_PX_PER_MS == 120
WIN_DELAY_MS == 2000

\* ------------------------------------------------------------------- bounds
\* Spec: how many actions one behaviour folds, and how many pipes it spawns
MaxSteps == 6
MaxPipes == 2

\* SpecFall: how many Gravity, Jump and Tick actions one behaviour folds
MaxFallGravity == 18
MaxFallJumps == 1
MaxFallTicks == 2

\* SpecClimb: how many Jump, Gravity and Tick actions one behaviour folds, and
\* how many more Gravity than Jump actions (periods without a key press)
MaxClimbJumps == 22
MaxClimbGravity == 24
MaxClimbTicks == 1
MaxCoast == 2

\* SpecScroll: how many TickPipes actions one behaviour folds
MaxScrollTicks == 185

\* SpecHit: how many CreatePipe, Tick, Gravity and TickPipes actions one
\* behaviour folds
MaxHitPipes == 2
MaxHitTicks == 1
MaxHitGravity == 1
MaxHitTickPipes == 2

\* SpecWin: how many CreatePipe, Tick and TickPipes actions one run folds
MaxWinPipes == 2
MaxWinTicks == 2
MaxWinTickPipes == 4

\* SpecPass: how many TickPipes actions one behaviour folds
MaxPassTicks == 140

\* SpecEnd: how many periods the clocks of the run count and how many times
\* the player presses Space
MaxEndPeriods == 300
MaxEndJumps == 24

\* SpecRun: how many periods of the three interval(TICK_RATE_MS) clocks one
\* run lasts, how many runs the reset key starts and how many times the
\* player presses Space in a run
MaxPeriods == 130
MaxRuns == 2
MaxRunJumps == 10

\* performance.now() at subscription: the seed time of a run
T0Set == {0}

\* dt of Tick(dt): the default period and one invincibility window
TickDtSet == {TICK_RATE_MS, INVINCIBLE_MS}

\* dtMs of TickPipes(dtMs): the default period and two long steps
PipeDtSet == {TICK_RATE_MS, 1000, 2000}

\* (gapY, gapH) of CreatePipe, in model units: a gap around the seed height,
\* a gap above it (the bottom rectangle blocks), a gap below it (the top
\* rectangle blocks)
GapSet == { <<200000, 120000>>, <<100000, 80000>>, <<300000, 80000>> }

\* ------------------------------------------------------------ optional values
undefined == << >>

Some(v) == << v >>

IsDefined(o) == o # undefined

Val(o) == o[1]

Max(a, b) == IF a >= b THEN a ELSE b

\* Number(text) of a text that is no number; every comparison with it is
\* false and every sum with it is NaN
NaN == -999999999

isNaN(x) == x = NaN

Min(a, b) == IF a <= b THEN a ELSE b

\* ------------------------------------------------------------------- state
VARIABLES s, mid, act, n, flagged, losses, run

vars == << s, mid, act, n, flagged, losses, run >>

\* `pipe-${k}`
PipeId(k) == << "pipe-", k >>

createBirb(id, x, y, createdAt, lives) ==
    [ id |-> id, birbX |-> x, birbY |-> y, birbVelocity |-> 0,
      birbLive |-> lives, createTime |-> createdAt ]

initialState(t0, canvasW, canvasH) ==
    [ gameEnd |-> FALSE,
      time |-> t0,
      pipes |-> << >>,
      exit |-> << >>,
      objCount |-> 0,
      score |-> 0,
      birb |-> createBirb("birb", (canvasW * 3) \div 10, canvasH \div 2, t0, BIRB_LIVES),
      invincibleUntil |-> undefined,
      won |-> undefined,
      winAt |-> undefined ]

\* ----------------------------------------------------------------- actions
C18_Mutant_TickApply(st, dt) == [st EXCEPT !.time = dt]

\* Tick(dt).apply
TickApply(st, dt) == [st EXCEPT !.time = st.time + dt]

C9_Mutant_JumpApply(st, velocity) ==
    [st EXCEPT !.birb.birbVelocity = st.birb.birbVelocity - velocity]

\* Jump(velocity).apply
JumpApply(st, velocity) == [st EXCEPT !.birb.birbVelocity = -velocity]

C30_Mutant_GravityApply(st) ==
    LET fall_rate == Min(st.birb.birbVelocity + GRAVITY, MAX_FALL_RATE + GRAVITY)
        newY == st.birb.birbY + fall_rate
    IN  [st EXCEPT !.birb.birbVelocity = fall_rate, !.birb.birbY = newY]

C8_Mutant_GravityApply(st) ==
    LET fall_rate == st.birb.birbVelocity + GRAVITY
        newY == st.birb.birbY + fall_rate
    IN  [st EXCEPT !.birb.birbVelocity = fall_rate, !.birb.birbY = newY]

\* Gravity.apply
GravityApply(st) ==
    LET fall_rate == Min(st.birb.birbVelocity + GRAVITY, MAX_FALL_RATE)
        newY == st.birb.birbY + fall_rate
    IN  [st EXCEPT !.birb.birbVelocity = fall_rate, !.birb.birbY = newY]

C17_Mutant_CreatePipeApply(st, gapY, gapH) ==
    LET pipe == [ id |-> PipeId(st.objCount),
                  x |-> CANVAS_WIDTH,
                  gapY |-> gapY,
                  gapH |-> gapH,
                  createTime |-> st.time,
                  passed |-> FALSE ]
    IN  [st EXCEPT !.objCount = st.objCount + 1,
                   !.pipes = Append(st.pipes, pipe)]

C27_Mutant_CreatePipeApply(st, gapY, gapH) ==
    LET pipe == [ id |-> PipeId(st.objCount + 1),
                  x |-> CANVAS_WIDTH,
                  gapY |-> gapY,
                  gapH |-> gapH,
                  createTime |-> st.time,
                  passed |-> FALSE ]
    IN  [st EXCEPT !.objCount = st.objCount + 1,
                   !.pipes = << pipe >> \o st.pipes]

\* CreatePipe(gapY, gapH).apply
CreatePipeApply(st, gapY, gapH) ==
    LET pipe == [ id |-> PipeId(st.objCount + 1),
                  x |-> CANVAS_WIDTH,
                  gapY |-> gapY,
                  gapH |-> gapH,
                  createTime |-> st.time,
                  passed |-> FALSE ]
    IN  [st EXCEPT !.objCount = st.objCount + 1,
                   !.pipes = Append(st.pipes, pipe)]

insideGap(py, p) ==
    /\ ~isNaN(p.gapY)
    /\ ~isNaN(p.gapH)
    /\ py > p.gapY - p.gapH \div 2
    /\ py < p.gapY + p.gapH \div 2

C7_Mutant_okToScore(st) == TRUE

C33_Mutant_okToScore(st) == st.birb.birbLive > 0

\* okToScore of TickPipes.apply
okToScore(st) == ~IsDefined(st.invincibleUntil) \/ st.time >= Val(st.invincibleUntil)

C14_Mutant_scoredNow(st, dx, p) ==
    LET currRight == p.x + PIPE_WIDTH
        prevRight == currRight + dx
        crossedNow == prevRight > st.birb.birbX /\ currRight < st.birb.birbX
    IN  ~p.passed /\ crossedNow /\ insideGap(st.birb.birbY, p) /\ okToScore(st)

\* the reducer callback of kept.reduce: one pipe, after the move
scoredNow(st, dx, p) ==
    LET currRight == p.x + PIPE_WIDTH
        prevRight == currRight + dx
        crossedNow == prevRight >= st.birb.birbX /\ currRight < st.birb.birbX
    IN  ~p.passed /\ crossedNow /\ insideGap(st.birb.birbY, p) /\ okToScore(st)

C1_Mutant_markPassed(p, sc) == p

\* nextP = scoredNow ? { ...p, passed: true } : p
markPassed(p, sc) == IF sc THEN [p EXCEPT !.passed = TRUE] ELSE p

RECURSIVE ScoreFold(_, _, _, _, _)
\* kept.reduce(..., {pipes: [], gained: 0}) from index i on
ScoreFold(st, dx, kept, i, acc) ==
    IF i > Len(kept) THEN acc
    ELSE LET p == kept[i]
             sc == scoredNow(st, dx, p)
             nextP == markPassed(p, sc)
         IN  ScoreFold(st, dx, kept, i + 1,
                       [ pipes |-> Append(acc.pipes, nextP),
                         gained |-> acc.gained + (IF sc THEN 1 ELSE 0) ])

C12_Mutant_resolved(st, p) == p.passed \/ p.x + PIPE_WIDTH < st.birb.birbX

\* resolved of TickPipes.apply
resolved(st, p) == p.passed \/ p.x + PIPE_WIDTH < st.birb.birbX + WIDTH \div 2

C3_Mutant_endAfterWin(st) ==
    IsDefined(st.winAt) /\ st.time - Val(st.winAt) > WIN_DELAY_MS

\* endAfterWin of TickPipes.apply
endAfterWin(st) ==
    IsDefined(st.winAt) /\ st.time - Val(st.winAt) >= WIN_DELAY_MS

C4_Mutant_gameEndAfterPipes(st) == endAfterWin(st)

C32_Mutant_gameEndAfterPipes(st) == st.gameEnd

\* gameEnd: s.gameEnd || endAfterWin
gameEndAfterPipes(st) == st.gameEnd \/ endAfterWin(st)

C15_Mutant_onScreen(p) == p.x > 0

C16_Mutant_onScreen(p) == p.x + PIPE_WIDTH \div 2 > 0

\* the filter of kept: p.x + PIPE_WIDTH > 0
onScreen(p) == p.x + PIPE_WIDTH > 0

C13_Mutant_winStarted(st, allResolved) == allResolved

\* winStarted = allResolved && s.winAt === undefined
winStarted(st, allResolved) == allResolved /\ ~IsDefined(st.winAt)

\* TickPipes(dtMs).apply
TickPipesApply(st, dtMs) ==
    LET dx == PIPE_SPEED_PX_PER_MS * dtMs
        moved == [ i \in 1..Len(st.pipes) |-> [st.pipes[i] EXCEPT !.x = @ - dx] ]
        kept == SelectSeq(moved, onScreen)
        folded == ScoreFold(st, dx, kept, 1, [ pipes |-> << >>, gained |-> 0 ])
        updated == folded.pipes
        nextScore == st.score + folded.gained
        allResolved == Len(updated) > 0
                       /\ \A i \in 1..Len(updated) : resolved(st, updated[i])
        started == winStarted(st, allResolved)
    IN  [st EXCEPT !.pipes = updated,
                   !.score = nextScore,
                   !.winAt = IF started THEN Some(st.time) ELSE st.winAt,
                   !.won = IF started THEN Some(TRUE) ELSE st.won,
                   !.gameEnd = gameEndAfterPipes(st)]

\* --------------------------------------------------------------- collisions
C19_Mutant_overlapAABB(a, b) ==
    a.x <= b.x + b.w /\ a.x + a.w >= b.x /\ a.y <= b.y + b.h /\ a.y + a.h >= b.y

overlapAABB(a, b) ==
    /\ ~isNaN(b.y)
    /\ ~isNaN(b.h)
    /\ a.x < b.x + b.w /\ a.x + a.w > b.x /\ a.y < b.y + b.h /\ a.y + a.h > b.y

birdRect(st) ==
    [ x |-> st.birb.birbX - WIDTH \div 2,
      y |-> st.birb.birbY - HEIGHT \div 2,
      w |-> WIDTH,
      h |-> HEIGHT ]

\* << top rectangle, bottom rectangle >>
pipeRects(p) ==
    LET nan == isNaN(p.gapY) \/ isNaN(p.gapH)
        topH == IF nan THEN NaN ELSE Max(0, p.gapY - p.gapH \div 2)
        bottomY == IF nan THEN NaN ELSE p.gapY + p.gapH \div 2
        bottomH == IF nan THEN NaN ELSE Max(0, CANVAS_HEIGHT - bottomY)
    IN  << [ x |-> p.x, y |-> 0, w |-> PIPE_WIDTH, h |-> topH ],
           [ x |-> p.x, y |-> bottomY, w |-> PIPE_WIDTH, h |-> bottomH ] >>

invincible(st) == IsDefined(st.invincibleUntil) /\ st.time < Val(st.invincibleUntil)

hitTopBound(st) == birdRect(st).y <= 0

hitBottomBound(st) == birdRect(st).y + birdRect(st).h >= CANVAS_HEIGHT

hitTopPipe(st) ==
    \E i \in 1..Len(st.pipes) : overlapAABB(birdRect(st), pipeRects(st.pipes[i])[1])

hitBottomPipe(st) ==
    \E i \in 1..Len(st.pipes) : overlapAABB(birdRect(st), pipeRects(st.pipes[i])[2])

anyHit(st) == hitTopBound(st) \/ hitBottomBound(st) \/ hitTopPipe(st) \/ hitBottomPipe(st)

bounceMag(st) ==
    BOUNCE_MIN + ((st.time % 1000) * (BOUNCE_MAX - BOUNCE_MIN)) \div 1000

C2_Mutant_livesAfterHit(st) == st.birb.birbLive - 1

\* lives = Math.max(0, s.birb.birbLive - 1)
livesAfterHit(st) == Max(0, st.birb.birbLive - 1)

C11_Mutant_bounceVy(st) == -bounceMag(st)

C26_Mutant_bounceVy(st) ==
    IF hitBottomBound(st) \/ hitBottomPipe(st) THEN -bounceMag(st) ELSE bounceMag(st)

\* bounceVy = (hitTopBound || hitTopPipe) ? +bounceMag : -bounceMag
bounceVy(st) ==
    IF hitTopBound(st) \/ hitTopPipe(st) THEN bounceMag(st) ELSE -bounceMag(st)

C31_Mutant_fatalHit(st) ==
    [st EXCEPT !.birb.birbLive = 0,
               !.birb.birbVelocity = 0,
               !.gameEnd = TRUE]

C10_Mutant_fatalHit(st) ==
    [st EXCEPT !.birb.birbLive = 0,
               !.gameEnd = TRUE,
               !.won = Some(FALSE),
               !.winAt = undefined]

\* the return of the branch lives === 0
fatalHit(st) ==
    [st EXCEPT !.birb.birbLive = 0,
               !.birb.birbVelocity = 0,
               !.gameEnd = TRUE,
               !.won = Some(FALSE),
               !.winAt = undefined]

C5_Mutant_bounceHit(st) ==
    LET lives == livesAfterHit(st)
        minY == HEIGHT \div 2
        maxY == CANVAS_HEIGHT - HEIGHT \div 2
        newY == Max(minY, Min(maxY, st.birb.birbY + bounceVy(st)))
    IN  [st EXCEPT !.birb.birbLive = lives,
                   !.birb.birbVelocity = bounceVy(st),
                   !.birb.birbY = newY,
                   !.invincibleUntil = Some(st.time + INVINCIBLE_MS),
                   !.gameEnd = st.gameEnd \/ lives = 0,
                   !.won = undefined,
                   !.winAt = undefined]

C29_Mutant_bounceHit(st) ==
    LET lives == livesAfterHit(st)
        dead == lives = 0
        minY == HEIGHT \div 2
        maxY == CANVAS_HEIGHT - HEIGHT \div 2
        newY == Max(minY, Min(maxY, st.birb.birbY + bounceVy(st)))
    IN  [st EXCEPT !.birb.birbLive = lives,
                   !.birb.birbVelocity = bounceVy(st),
                   !.birb.birbY = newY,
                   !.invincibleUntil = Some(st.time + TICK_RATE_MS),
                   !.gameEnd = st.gameEnd \/ dead,
                   !.won = IF dead THEN Some(FALSE) ELSE st.won,
                   !.winAt = IF dead THEN undefined ELSE st.winAt]

\* the final return: lives remain, the bird bounces
bounceHit(st) ==
    LET lives == livesAfterHit(st)
        dead == lives = 0
        minY == HEIGHT \div 2
        maxY == CANVAS_HEIGHT - HEIGHT \div 2
        newY == Max(minY, Min(maxY, st.birb.birbY + bounceVy(st)))
    IN  [st EXCEPT !.birb.birbLive = lives,
                   !.birb.birbVelocity = bounceVy(st),
                   !.birb.birbY = newY,
                   !.invincibleUntil = Some(st.time + INVINCIBLE_MS),
                   !.gameEnd = st.gameEnd \/ dead,
                   !.won = IF dead THEN Some(FALSE) ELSE st.won,
                   !.winAt = IF dead THEN undefined ELSE st.winAt]

C28_Mutant_handleCollisions(st) ==
    IF invincible(st) THEN st
    ELSE IF ~(hitTopBound(st) \/ hitBottomBound(st)) THEN st
    ELSE IF livesAfterHit(st) = 0 THEN fatalHit(st)
    ELSE bounceHit(st)

C6_Mutant_handleCollisions(st) ==
    IF ~anyHit(st) THEN st
    ELSE IF livesAfterHit(st) = 0 THEN fatalHit(st)
    ELSE bounceHit(st)

handleCollisions(st) ==
    IF invincible(st) THEN st
    ELSE IF ~anyHit(st) THEN st
    ELSE IF livesAfterHit(st) = 0 THEN fatalHit(st)
    ELSE bounceHit(st)

\* ------------------------------------------------------------ the state machine
\* s   : the State held by the fold (scan)
\* mid : action.apply(s) of the last step, before handleCollisions
\* act : the last action folded
\* n   : how many actions of each kind were folded
\* flagged : the ids of the pipes seen with passed = true so far
\* losses : the state times of the steps of this run that lowered birbLive
PassedIds(st) == { st.pipes[i].id : i \in { j \in 1..Len(st.pipes) : st.pipes[j].passed } }

\* the reducer folded on its own, without the wiring of main()
Unwired ==
    [ phase |-> "unwired", runs |-> 0, spawned |-> {}, shown |-> undefined,
      live |-> {}, cut |-> FALSE, rows |-> << >>,
      t0 |-> undefined, rec |-> undefined, ghosts |-> << >> ]

Init ==
    /\ \E t0 \in T0Set : s = initialState(t0, CANVAS_WIDTH, CANVAS_HEIGHT)
    /\ mid = s
    /\ act = [ kind |-> "seed", arg |-> << >> ]
    /\ n = [ tick |-> 0, gravity |-> 0, jump |-> 0, tickPipes |-> 0 ]
    /\ flagged = {}
    /\ losses = << >>
    /\ run = Unwired

\* reduceState(s, action) = handleCollisions(action.apply(s))
Fold(applied, a) ==
    /\ mid' = applied
    /\ s' = handleCollisions(applied)
    /\ act' = a
    /\ flagged' = flagged \cup PassedIds(handleCollisions(applied))
    /\ losses' = IF handleCollisions(applied).birb.birbLive < s.birb.birbLive
                  THEN Append(losses, handleCollisions(applied).time)
                  ELSE losses

Steps == n.tick + n.gravity + n.jump + n.tickPipes + s.objCount

DoTick ==
    /\ \E dt \in TickDtSet :
          Fold(TickApply(s, dt), [ kind |-> "Tick", arg |-> << dt >> ])
    /\ n' = [n EXCEPT !.tick = @ + 1]
    /\ UNCHANGED run

DoJump ==
    /\ Fold(JumpApply(s, JUMP_VELOCITY), [ kind |-> "Jump", arg |-> << JUMP_VELOCITY >> ])
    /\ n' = [n EXCEPT !.jump = @ + 1]
    /\ UNCHANGED run

DoGravity ==
    /\ Fold(GravityApply(s), [ kind |-> "Gravity", arg |-> << >> ])
    /\ n' = [n EXCEPT !.gravity = @ + 1]
    /\ UNCHANGED run

\* the actions of the reducer, in any order
Tick == Steps < MaxSteps /\ DoTick

Jump == Steps < MaxSteps /\ DoJump

Gravity == Steps < MaxSteps /\ DoGravity

CreatePipe ==
    /\ Steps < MaxSteps
    /\ s.objCount < MaxPipes
    /\ \E g \in GapSet :
          Fold(CreatePipeApply(s, g[1], g[2]), [ kind |-> "CreatePipe", arg |-> g ])
    /\ UNCHANGED << n, run >>

TickPipes ==
    /\ Steps < MaxSteps
    /\ \E dt \in PipeDtSet :
          Fold(TickPipesApply(s, dt), [ kind |-> "TickPipes", arg |-> << dt >> ])
    /\ n' = [n EXCEPT !.tickPipes = @ + 1]
    /\ UNCHANGED run

Next == Tick \/ Jump \/ Gravity \/ CreatePipe \/ TickPipes

Spec == Init /\ [][Next]_vars

\* a run before its first spawn: the bird falls, jumps and bounces
FallTick == n.tick < MaxFallTicks /\ DoTick

FallJump == n.jump < MaxFallJumps /\ DoJump

FallGravity == n.gravity < MaxFallGravity /\ DoGravity

NextFall == FallTick \/ FallJump \/ FallGravity

SpecFall == Init /\ [][NextFall]_vars

\* a player who presses the key in nearly every period: the bird climbs to
\* the top boundary
ClimbJump == n.jump < MaxClimbJumps /\ n.jump <= n.gravity /\ DoJump

ClimbGravity ==
    n.gravity < MaxClimbGravity /\ n.gravity - n.jump < MaxCoast /\ DoGravity

ClimbTick == n.tick < MaxClimbTicks /\ DoTick

NextClimb == ClimbJump \/ ClimbGravity \/ ClimbTick

SpecClimb == Init /\ [][NextClimb]_vars

\* pipes spawned together and carried over the bird by TickPipes steps longer
\* than the invincibility window
HitCreate ==
    /\ s.objCount < MaxHitPipes
    /\ n.tickPipes = 0
    /\ \E g \in GapSet :
          Fold(CreatePipeApply(s, g[1], g[2]), [ kind |-> "CreatePipe", arg |-> g ])
    /\ UNCHANGED << n, run >>

HitTick ==
    /\ n.tick < MaxHitTicks
    /\ Fold(TickApply(s, TICK_RATE_MS), [ kind |-> "Tick", arg |-> << TICK_RATE_MS >> ])
    /\ n' = [n EXCEPT !.tick = @ + 1]
    /\ UNCHANGED run

HitGravity == n.gravity < MaxHitGravity /\ DoGravity

HitTickPipes ==
    /\ n.tickPipes < MaxHitTickPipes
    /\ \E dt \in { d \in PipeDtSet : d > INVINCIBLE_MS } :
          Fold(TickPipesApply(s, dt), [ kind |-> "TickPipes", arg |-> << dt >> ])
    /\ n' = [n EXCEPT !.tickPipes = @ + 1]
    /\ UNCHANGED run

NextHit == HitCreate \/ HitTick \/ HitGravity \/ HitTickPipes

SpecHit == Init /\ [][NextHit]_vars

\* a run up to its first gameEnd state (takeWhile), with clock and pipe steps
\* as long as the invincibility window or longer: pipes pass or hit the bird,
\* the win delay starts and runs out
WinCreate ==
    /\ ~s.gameEnd
    /\ s.objCount < MaxWinPipes
    /\ \E g \in GapSet :
          Fold(CreatePipeApply(s, g[1], g[2]), [ kind |-> "CreatePipe", arg |-> g ])
    /\ UNCHANGED << n, run >>

WinTick ==
    /\ ~s.gameEnd
    /\ n.tick < MaxWinTicks
    /\ \E dt \in { d \in TickDtSet : d >= INVINCIBLE_MS } :
          Fold(TickApply(s, dt), [ kind |-> "Tick", arg |-> << dt >> ])
    /\ n' = [n EXCEPT !.tick = @ + 1]
    /\ UNCHANGED run

WinTickPipes ==
    /\ ~s.gameEnd
    /\ n.tickPipes < MaxWinTickPipes
    /\ \E dt \in { d \in PipeDtSet : d > INVINCIBLE_MS } :
          Fold(TickPipesApply(s, dt), [ kind |-> "TickPipes", arg |-> << dt >> ])
    /\ n' = [n EXCEPT !.tickPipes = @ + 1]
    /\ UNCHANGED run

NextWin == WinCreate \/ WinTick \/ WinTickPipes

SpecWin == Init /\ [][NextWin]_vars

\* (gapY, gapH) of the pipes of SpecPass: those of GapSet and a gap at the
\* seed height that is narrower than the body
PassGapSet == GapSet \cup { <<200000, 20000>> }

\* a pipe spawned at the start, a second one spawned at any later time, both
\* scrolled past the bird by the default TickPipes()
PassFirst ==
    /\ s.objCount = 0
    /\ n.tickPipes = 0
    /\ \E g \in PassGapSet :
          Fold(CreatePipeApply(s, g[1], g[2]), [ kind |-> "CreatePipe", arg |-> g ])
    /\ UNCHANGED << n, run >>

PassSecond ==
    /\ s.objCount = 1
    /\ \E g \in PassGapSet :
          Fold(CreatePipeApply(s, g[1], g[2]), [ kind |-> "CreatePipe", arg |-> g ])
    /\ UNCHANGED << n, run >>

PassTickPipes ==
    /\ s.objCount > 0
    /\ n.tickPipes < MaxPassTicks
    /\ Fold(TickPipesApply(s, TICK_RATE_MS), [ kind |-> "TickPipes", arg |-> << TICK_RATE_MS >> ])
    /\ n' = [n EXCEPT !.tickPipes = @ + 1]
    /\ UNCHANGED run

NextPass == PassFirst \/ PassSecond \/ PassTickPipes

SpecPass == Init /\ [][NextPass]_vars

\* one pipe spawned at the start and scrolled by the default TickPipes()
ScrollCreate ==
    /\ s.objCount = 0
    /\ n.tickPipes = 0
    /\ \E g \in GapSet :
          Fold(CreatePipeApply(s, g[1], g[2]), [ kind |-> "CreatePipe", arg |-> g ])
    /\ UNCHANGED << n, run >>

ScrollTickPipes ==
    /\ n.tickPipes < MaxScrollTicks
    /\ Fold(TickPipesApply(s, TICK_RATE_MS), [ kind |-> "TickPipes", arg |-> << TICK_RATE_MS >> ])
    /\ n' = [n EXCEPT !.tickPipes = @ + 1]
    /\ UNCHANGED run

NextScroll == ScrollCreate \/ ScrollTickPipes

SpecScroll == Init /\ [][NextScroll]_vars

\* ------------------------------------------------------------- main wiring
\* contents of the schedule file after parseCsv, one record per line: gap
\* centre and gap height in 1/1000 of the canvas height, delay in ms
\* (delay * 1000). A field that is no number is NaN; parseCsv never throws.
Schedules ==
    { << [ gap |-> 500, height |-> 300, delay |-> 1000 ],
         [ gap |-> 250, height |-> 200, delay |-> 3000 ] >>,
      << [ gap |-> 500, height |-> 300, delay |-> 0 ],
         [ gap |-> 500, height |-> 300, delay |-> 6000 ] >>,
      << [ gap |-> NaN, height |-> 300, delay |-> 1000 ] >> }

\* rows = parseCsv(csvContents) of the file that was fetched last
Schedule == run.rows

Rows == 1..Len(Schedule)

C22_Mutant_toPx(fraction) ==
    IF isNaN(fraction) THEN NaN ELSE (fraction * CANVAS_WIDTH) \div 1000

\* toPx(fraction) = fraction * CANVAS_HEIGHT
toPx(fraction) ==
    IF isNaN(fraction) THEN NaN ELSE (fraction * CANVAS_HEIGHT) \div 1000

\* the player taps Space at the start of every JumpEvery-th period
JumpEvery == 13

Clocks == { "gravity", "tick", "tickPipes" }

C20_Mutant_takeWhileEmits(st, inclusive) == ~st.gameEnd

\* takeWhile(s => !s.gameEnd, inclusive): is the value passed on
takeWhileEmits(st, inclusive) == ~st.gameEnd \/ inclusive

\* takeWhile completes, and repeat() subscribes again: the schedule file is
\* fetched again
Wire(st) ==
    [run EXCEPT !.phase = IF st.gameEnd THEN "loading" ELSE "running",
                !.shown = IF takeWhileEmits(st, TRUE) THEN Some(st) ELSE run.shown]

\* a recording (GhostFrame[]) by what the claims read of it: the t of its
\* first frame, the runs whose states its frames were taken from, and whether
\* the t of every frame is the state time elapsed since the start of the run
\* that produced the frame
EmptyRecording == [ first |-> undefined, runs |-> {}, elapsed |-> TRUE ]

\* currentRecording.push({ t, y: s.birb.birbY }) for a state st of run k
PushFrame(rec, tt, st, k) ==
    [ first |-> IF IsDefined(rec.first) THEN rec.first ELSE Some(tt),
      runs |-> rec.runs \cup { k },
      elapsed |-> rec.elapsed /\ tt = st.time - st.birb.createTime ]

\* the function returned by render(), applied to a state st that the
\* pipeline delivers: run.t0, GhostStore.currentRecording and
\* GhostStore.sessionGhosts
render(r, st) ==
    LET first == ~IsDefined(r.t0)
        t0 == IF first THEN Some(st.time) ELSE r.t0
        started == IF first THEN Some(EmptyRecording) ELSE r.rec
        tt == st.time - Val(t0)
        rec == IF IsDefined(started)
                 THEN Some(PushFrame(Val(started), tt, st, r.runs))
                 ELSE started
    IN  IF st.gameEnd
          THEN [r EXCEPT !.t0 = undefined,
                         !.rec = undefined,
                         !.ghosts = IF IsDefined(rec) /\ IsDefined(Val(rec).first)
                                      THEN Append(r.ghosts, Val(rec))
                                      ELSE r.ghosts]
          ELSE [r EXCEPT !.t0 = t0, !.rec = rec]

\* gameOverText.textContent = s.won ? "You Win!" : "Game Over"
gameOverText(st) == IF st.won = Some(TRUE) THEN "You Win!" ELSE "Game Over"

\* subscribe(render()): every value that takeWhile passes on is rendered
Rendered(r, st) == IF takeWhileEmits(st, TRUE) THEN render(r, st) ELSE r

C21_Mutant_switchMap(live, k) == live \cup { k }

\* switchMap(() => state$(contents)): the inner subscriptions (of the runs
\* in live) are dropped and that of run k takes their place
switchMap(live, k) == { k }

\* takeWhile unsubscribes from its source when it completes
Unsubscribed(r) == [r EXCEPT !.live = IF r.phase = "running" THEN r.live ELSE {}]

\* performance.now() when state$ is called: T0Set at the first start, later
\* than the state time of the run before at a later one
NowSet(prev) ==
    IF run.runs = 0 THEN T0Set
    ELSE { (prev \div 10000 + 1) * 10000, (prev \div 10000 + 1) * 10000 + 1000 }

InitRun ==
    /\ \E t0 \in T0Set : s = initialState(t0, CANVAS_WIDTH, CANVAS_HEIGHT)
    /\ mid = s
    /\ act = [ kind |-> "none", arg |-> << >> ]
    /\ n = [ tick |-> 0, gravity |-> 0, jump |-> 0, tickPipes |-> 0 ]
    /\ flagged = {}
    /\ losses = << >>
    /\ run = [ phase |-> "loading", runs |-> 0, spawned |-> {}, shown |-> undefined,
               live |-> {}, cut |-> FALSE, rows |-> << >>,
               t0 |-> undefined, rec |-> undefined, ghosts |-> << >> ]

\* the fetch answers: start$ is subscribed
CsvLoaded ==
    /\ run.phase = "loading"
    /\ \E rows \in Schedules : run' = [run EXCEPT !.phase = "waiting", !.rows = rows]
    /\ UNCHANGED << s, mid, act, n, flagged, losses >>

\* the fetch fails: the error ends the pipeline
CsvFailed ==
    /\ run.phase = "loading"
    /\ run' = [run EXCEPT !.phase = "failed"]
    /\ UNCHANGED << s, mid, act, n, flagged, losses >>

\* KeyR: switchMap drops the run in progress, if any, and subscribes a new
\* state$, whose first value is reduceState(seed, identity)
Start ==
    /\ run.phase \in { "waiting", "running" }
    /\ run.runs < MaxRuns
    /\ \E t0 \in NowSet(s.time) :
          LET seed == initialState(t0, CANVAS_WIDTH, CANVAS_HEIGHT)
          IN  /\ mid' = seed
              /\ s' = handleCollisions(seed)
              /\ run' = Rendered(Unsubscribed(
                           [Wire(handleCollisions(seed))
                               EXCEPT !.runs = run.runs + 1,
                                      !.spawned = {},
                                      !.live = switchMap(run.live, run.runs + 1),
                                      !.cut = (run.phase = "running")]),
                           handleCollisions(seed))
    /\ act' = [ kind |-> "seed", arg |-> << >> ]
    /\ n' = [ tick |-> 0, gravity |-> 0, jump |-> 0, tickPipes |-> 0 ]
    /\ flagged' = {}
    /\ losses' = << >>

\* one value of the merged action stream is folded by scan and passed to
\* takeWhile
RunStep(applied, a) ==
    /\ run.phase = "running"
    /\ run.runs \in run.live
    /\ Fold(applied, a)

\* the c clock fires for the (n[c] + 1)-th time: not before the clocks that
\* are a period behind, nor before a spawn timer that was due earlier
ClockReady(c) ==
    /\ n[c] < MaxPeriods
    /\ \A d \in Clocks : n[c] <= n[d]
    /\ \A i \in Rows \ run.spawned : Schedule[i].delay >= TICK_RATE_MS * (n[c] + 1)

RunGravity ==
    /\ ClockReady("gravity")
    /\ RunStep(GravityApply(s), [ kind |-> "Gravity", arg |-> << >> ])
    /\ n' = [n EXCEPT !.gravity = @ + 1]
    /\ run' = Rendered(Unsubscribed(Wire(handleCollisions(GravityApply(s)))),
                     handleCollisions(GravityApply(s)))

RunTick ==
    /\ ClockReady("tick")
    /\ RunStep(TickApply(s, TICK_RATE_MS), [ kind |-> "Tick", arg |-> << TICK_RATE_MS >> ])
    /\ n' = [n EXCEPT !.tick = @ + 1]
    /\ run' = Rendered(Unsubscribed(Wire(handleCollisions(TickApply(s, TICK_RATE_MS)))),
                     handleCollisions(TickApply(s, TICK_RATE_MS)))

RunTickPipes ==
    /\ ClockReady("tickPipes")
    /\ RunStep(TickPipesApply(s, TICK_RATE_MS), [ kind |-> "TickPipes", arg |-> << TICK_RATE_MS >> ])
    /\ n' = [n EXCEPT !.tickPipes = @ + 1]
    /\ run' = Rendered(Unsubscribed(Wire(handleCollisions(TickPipesApply(s, TICK_RATE_MS)))),
                     handleCollisions(TickPipesApply(s, TICK_RATE_MS)))

\* Space, between two periods
RunJump ==
    /\ n.jump < MaxRunJumps
    /\ \A d \in Clocks : n[d] = n.jump * JumpEvery
    /\ RunStep(JumpApply(s, JUMP_VELOCITY), [ kind |-> "Jump", arg |-> << JUMP_VELOCITY >> ])
    /\ n' = [n EXCEPT !.jump = @ + 1]
    /\ run' = Rendered(Unsubscribed(Wire(handleCollisions(JumpApply(s, JUMP_VELOCITY)))),
                     handleCollisions(JumpApply(s, JUMP_VELOCITY)))

\* the timer of row i fires: after the clock firings that were due earlier
\* and after the rows with a shorter delay
RunSpawn ==
    \E i \in Rows \ run.spawned :
        /\ \A d \in Clocks : TICK_RATE_MS * (n[d] + 1) >= Schedule[i].delay
        /\ \A j \in Rows \ run.spawned : Schedule[j].delay >= Schedule[i].delay
        /\ LET gapY == toPx(Schedule[i].gap)
               gapH == toPx(Schedule[i].height)
           IN  /\ RunStep(CreatePipeApply(s, gapY, gapH),
                          [ kind |-> "CreatePipe", arg |-> << gapY, gapH >> ])
               /\ run' = Rendered(Unsubscribed(
                            [Wire(handleCollisions(CreatePipeApply(s, gapY, gapH)))
                                EXCEPT !.spawned = run.spawned \cup { i }]),
                            handleCollisions(CreatePipeApply(s, gapY, gapH)))
        /\ UNCHANGED n

NextRun ==
    \/ CsvLoaded
    \/ CsvFailed
    \/ Start
    \/ RunGravity
    \/ RunTick
    \/ RunTickPipes
    \/ RunJump
    \/ RunSpawn

SpecRun == InitRun /\ [][NextRun]_vars

\* the first run, played to its end: KeyR is pressed once, the three clocks
\* and the spawn timers keep firing, and the player presses Space at the
\* start of every JumpEvery-th period, up to any period
EndStart ==
    /\ run.phase = "waiting"
    /\ run.runs = 0
    /\ \E t0 \in NowSet(s.time) :
          LET seed == initialState(t0, CANVAS_WIDTH, CANVAS_HEIGHT)
          IN  /\ mid' = seed
              /\ s' = handleCollisions(seed)
              /\ run' = Rendered(Unsubscribed(
                           [Wire(handleCollisions(seed))
                               EXCEPT !.runs = run.runs + 1,
                                      !.spawned = {},
                                      !.live = switchMap(run.live, run.runs + 1),
                                      !.cut = FALSE]),
                           handleCollisions(seed))
    /\ act' = [ kind |-> "seed", arg |-> << >> ]
    /\ n' = [ tick |-> 0, gravity |-> 0, jump |-> 0, tickPipes |-> 0 ]
    /\ flagged' = {}
    /\ losses' = << >>

\* the c clock fires for the (n[c] + 1)-th time; timers due at the same time
\* fire in the order in which merge subscribed them: gravity$, time$,
\* tickPipes$
EndClockReady(c) ==
    /\ n[c] < MaxEndPeriods
    /\ \A d \in Clocks : n[c] <= n[d]
    /\ c = "tick" => n.gravity > n.tick
    /\ c = "tickPipes" => n.tick > n.tickPipes
    /\ \A i \in Rows \ run.spawned : Schedule[i].delay >= TICK_RATE_MS * (n[c] + 1)

\* one value of the merged action stream is folded by scan, passed to
\* takeWhile and rendered
EndStep(applied, a) ==
    /\ run.phase = "running"
    /\ run.runs \in run.live
    /\ mid' = applied
    /\ s' = handleCollisions(mid')
    /\ act' = a
    /\ flagged' = flagged \cup PassedIds(s')
    /\ losses' = IF s'.birb.birbLive < s.birb.birbLive
                  THEN Append(losses, s'.time)
                  ELSE losses

EndGravity ==
    /\ EndClockReady("gravity")
    /\ EndStep(GravityApply(s), [ kind |-> "Gravity", arg |-> << >> ])
    /\ n' = [n EXCEPT !.gravity = @ + 1]
    /\ run' = Rendered(Unsubscribed(Wire(s')), s')

EndTick ==
    /\ EndClockReady("tick")
    /\ EndStep(TickApply(s, TICK_RATE_MS), [ kind |-> "Tick", arg |-> << TICK_RATE_MS >> ])
    /\ n' = [n EXCEPT !.tick = @ + 1]
    /\ run' = Rendered(Unsubscribed(Wire(s')), s')

EndTickPipes ==
    /\ EndClockReady("tickPipes")
    /\ EndStep(TickPipesApply(s, TICK_RATE_MS), [ kind |-> "TickPipes", arg |-> << TICK_RATE_MS >> ])
    /\ n' = [n EXCEPT !.tickPipes = @ + 1]
    /\ run' = Rendered(Unsubscribed(Wire(s')), s')

\* Space, between two periods
EndJump ==
    /\ n.jump < MaxEndJumps
    /\ \A d \in Clocks : n[d] = n.jump * JumpEvery
    /\ EndStep(JumpApply(s, JUMP_VELOCITY), [ kind |-> "Jump", arg |-> << JUMP_VELOCITY >> ])
    /\ n' = [n EXCEPT !.jump = @ + 1]
    /\ run' = Rendered(Unsubscribed(Wire(s')), s')

\* the timer of row i fires: after the clock firings that were due earlier
\* and after the rows with a shorter delay
EndSpawn ==
    \E i \in Rows \ run.spawned :
        /\ \A d \in Clocks : TICK_RATE_MS * (n[d] + 1) >= Schedule[i].delay
        /\ \A j \in Rows \ run.spawned : Schedule[j].delay >= Schedule[i].delay
        /\ EndStep(CreatePipeApply(s, toPx(Schedule[i].gap), toPx(Schedule[i].height)),
                   [ kind |-> "CreatePipe",
                     arg |-> << toPx(Schedule[i].gap), toPx(Schedule[i].height) >> ])
        /\ run' = Rendered(Unsubscribed(
                     [Wire(s') EXCEPT !.spawned = run.spawned \cup { i }]), s')
        /\ UNCHANGED n

\* the timers: the three interval(TICK_RATE_MS) clocks and the timer of each
\* schedule row
EndTimers == EndGravity \/ EndTick \/ EndTickPipes \/ EndSpawn

NextEnd == CsvLoaded \/ EndStart \/ EndTimers \/ EndJump

SpecEnd == InitRun /\ [][NextEnd]_vars /\ WF_vars(EndTimers)

\* =================================================================== claims
\* the ids of the pipes whose passed flag is false (or absent) in a and true in b
NewlyPassed(a, b) == PassedIds(b) \ PassedIds(a)

\* the ids of the pipes in the list
PipeIds(st) == { st.pipes[i].id : i \in 1..Len(st.pipes) }

\* a passed flag never goes back to false, and a dropped id never comes back
FlagsKept ==
    /\ \A i \in 1..Len(s.pipes) : \A j \in 1..Len(s'.pipes) :
          (s.pipes[i].id = s'.pipes[j].id /\ s.pipes[i].passed) => s'.pipes[j].passed
    /\ PipeIds(s') \subseteq PipeIds(s) \cup { PipeId(s.objCount + 1) }
    /\ NewlyPassed(s, s') \cap flagged = {}

\* the score changes only in a TickPipes step
ScoreOnlyInTickPipes ==
    (s'.score # s.score \/ NewlyPassed(s, s') # {}) => act'.kind = "TickPipes"

ScoreIsFlagged ==
    /\ s.score = Cardinality(flagged)
    /\ s.score <= s.objCount

\* C1 as written: in a step that flags a pipe the score rises by exactly 1
\* (and in every other step it does not change), flags are write-once, and
\* the score is the number of pipes flagged so far.
C1_Original ==
    /\ []ScoreIsFlagged
    /\ [][ /\ FlagsKept
           /\ ScoreOnlyInTickPipes
           /\ s'.score = s.score + (IF NewlyPassed(s, s') # {} THEN 1 ELSE 0) ]_vars

\* C1 (amended): for every pipe id the passed flag goes false->true at most
\* once and never back; the score rises, only in TickPipes steps, by exactly
\* the number of pipes whose flag becomes true in that step (one per pipe: two
\* pipes that cross in the same step raise it by 2); so the score always equals
\* the number of distinct pipes flagged passed and never exceeds objCount.
C1_ScoreOncePerPipe ==
    /\ []ScoreIsFlagged
    /\ [][ /\ FlagsKept
           /\ ScoreOnlyInTickPipes
           /\ s'.score = s.score + Cardinality(NewlyPassed(s, s')) ]_vars

\* a pipe was flagged and stays in the list, flagged, after a later TickPipes
C1_Witness ==
    /\ act.kind = "TickPipes"
    /\ s.score = 1
    /\ PassedIds(mid) # {}
    /\ NewlyPassed(mid, s) = {}
    /\ n.tickPipes >= 4
    /\ flagged = PassedIds(s)

\* C2: birbLive is an integer in 0..BIRB_LIVES in every reachable state and
\* never increases from one state to the next.
C2_LivesBounded ==
    /\ [](s.birb.birbLive \in 0..BIRB_LIVES)
    /\ [][ s'.birb.birbLive <= s.birb.birbLive ]_vars

\* a collision pass ran on a state that had no life left
C2_Witness ==
    /\ mid.birb.birbLive = 0
    /\ ~invincible(mid)
    /\ anyHit(mid)
    /\ s.birb.birbLive = 0

WinDelayElapsed(st) ==
    IsDefined(st.winAt) /\ st.time - Val(st.winAt) >= WIN_DELAY_MS

\* C3 as written: gameEnd is true if and only if birbLive = 0 or the post-win
\* delay has elapsed.
C3_Original == s.gameEnd <=> (s.birb.birbLive = 0 \/ WinDelayElapsed(s))

\* C3 (amended): gameEnd is true only if birbLive = 0 or the post-win delay
\* has elapsed; birbLive = 0 implies gameEnd; an elapsed win delay makes
\* gameEnd true at the next TickPipes step, not before.
C3_GameEndCause ==
    /\ s.gameEnd => (s.birb.birbLive = 0 \/ WinDelayElapsed(s))
    /\ s.birb.birbLive = 0 => s.gameEnd
    /\ (act.kind = "TickPipes" /\ WinDelayElapsed(mid)) => s.gameEnd

\* the run ended through the win delay, with lives left
C3_Witness ==
    /\ act.kind = "TickPipes"
    /\ WinDelayElapsed(mid)
    /\ s.gameEnd
    /\ s.birb.birbLive > 0

\* C4: gameEnd is monotone: a step from a state with gameEnd = true, whatever
\* the action, yields a state with gameEnd = true.
C4_GameEndMonotone == [][ s.gameEnd => s'.gameEnd ]_vars

\* a TickPipes was folded into a state that had already ended
C4_Witness ==
    /\ act.kind = "TickPipes"
    /\ mid.birb.birbLive = 0
    /\ ~anyHit(mid)
    /\ s.gameEnd

\* C5 as written: winAt, once set, is never unset, and won, once true, stays
\* true.
C5_Original ==
    [][ /\ IsDefined(s.winAt) => IsDefined(s'.winAt)
        /\ s.won = Some(TRUE) => s'.won = Some(TRUE) ]_vars

\* C5 (amended): winAt, once set, keeps its value and won, once true, stays
\* true in every step that leaves the bird a life; the fatal hit (birbLive
\* reaching 0) clears winAt and sets won = false.
C5_WinSticky ==
    [][ /\ s'.birb.birbLive > 0 =>
              /\ IsDefined(s.winAt) => s'.winAt = s.winAt
              /\ s.won = Some(TRUE) => s'.won = Some(TRUE)
        /\ (s'.birb.birbLive = 0 /\ s.birb.birbLive > 0) =>
              (s'.winAt = undefined /\ s'.won = Some(FALSE)) ]_vars

\* a bounce (a non-fatal hit) happened while the win was recorded
C5_Witness ==
    /\ IsDefined(mid.winAt)
    /\ ~invincible(mid)
    /\ anyHit(mid)
    /\ s.birb.birbLive > 0
    /\ s.winAt = mid.winAt
    /\ s.won = Some(TRUE)
    /\ act.kind # "TickPipes"

\* birbY with the body's top edge on the top boundary, and with its bottom
\* edge on the bottom boundary
ProbeY == { HEIGHT \div 2, CANVAS_HEIGHT - HEIGHT \div 2 }

\* C6: handleCollisions returns an invincible state (invincibleUntil defined,
\* time < invincibleUntil) unchanged, whatever boundary or pipe the body
\* overlaps.
C6_InvincibleUnchanged ==
    /\ invincible(mid) => s = mid
    /\ \A y \in ProbeY :
          LET m == [mid EXCEPT !.birb.birbY = y]
          IN  invincible(m) => handleCollisions(m) = m

\* the collision pass ran on an invincible state whose body overlaps a pipe
C6_Witness ==
    /\ invincible(mid)
    /\ hitTopPipe(mid) \/ hitBottomPipe(mid)
    /\ s = mid

\* C7: a TickPipes step applied to an invincible state neither raises the
\* score nor sets a passed flag, and no step whose post-action state is still
\* invincible lowers birbLive.
C7_InvincibleSuppresses ==
    [][ /\ (act'.kind = "TickPipes" /\ invincible(s)) =>
              (s'.score = s.score /\ NewlyPassed(s, s') = {})
        /\ invincible(mid') => s'.birb.birbLive = s.birb.birbLive ]_vars

\* a TickPipes step on an invincible state in which an unpassed pipe's right
\* edge crossed birbX with the body inside its gap
C7_Witness ==
    /\ act.kind = "TickPipes"
    /\ invincible(mid)
    /\ \E i \in 1..Len(mid.pipes) :
          LET p == mid.pipes[i]
              dx == PIPE_SPEED_PX_PER_MS * act.arg[1]
          IN  /\ ~p.passed
              /\ p.x + PIPE_WIDTH + dx >= mid.birb.birbX
              /\ p.x + PIPE_WIDTH < mid.birb.birbX
              /\ mid.birb.birbY > p.gapY - p.gapH \div 2
              /\ mid.birb.birbY < p.gapY + p.gapH \div 2

\* C8: Gravity.apply sets birbVelocity' = min(birbVelocity + GRAVITY,
\* MAX_FALL_RATE) and birbY' = birbY + birbVelocity' and changes nothing else,
\* so the velocity after a Gravity never exceeds MAX_FALL_RATE; y = 200, v = 0
\* gives v = 1.5, y = 201.5 and v = 20 gives v = 18.
C8_GravityClamped ==
    /\ [][ act'.kind = "Gravity" =>
             LET v == IF s.birb.birbVelocity + GRAVITY > MAX_FALL_RATE
                      THEN MAX_FALL_RATE ELSE s.birb.birbVelocity + GRAVITY
             IN  /\ mid'.birb.birbVelocity = v
                 /\ mid'.birb.birbY = s.birb.birbY + v
                 /\ [mid' EXCEPT !.birb.birbVelocity = s.birb.birbVelocity,
                                 !.birb.birbY = s.birb.birbY] = s ]_vars
    /\ [](act.kind = "Gravity" => mid.birb.birbVelocity <= MAX_FALL_RATE)
    /\ [](LET a == GravityApply([s EXCEPT !.birb.birbY = 200000,
                                           !.birb.birbVelocity = 0])
              b == GravityApply([s EXCEPT !.birb.birbVelocity = 20000])
          IN  /\ a.birb.birbVelocity = 1500
              /\ a.birb.birbY = 201500
              /\ b.birb.birbVelocity = 18000)

\* the 13th Gravity of a free fall: 18 + 1.5 is clamped to 18
C8_Witness ==
    /\ act.kind = "Gravity"
    /\ n.gravity = 13
    /\ n.jump = 0
    /\ mid.birb.birbVelocity = MAX_FALL_RATE
    /\ mid.birb.birbY = 200000 + 78 * GRAVITY + MAX_FALL_RATE

\* impulses of Jump(impulse)
ImpulseSet == { 0, JUMP_VELOCITY, 2 * JUMP_VELOCITY }

\* C9: Jump(impulse).apply sets birbVelocity to exactly -impulse whatever the
\* prior velocity, leaves birbY and every other field unchanged, and applying
\* the same Jump twice gives the same state as applying it once.
C9_JumpOverwrite ==
    /\ \A v \in ImpulseSet :
          LET j == JumpApply(s, v)
          IN  /\ j.birb.birbVelocity = -v
              /\ j.birb.birbY = s.birb.birbY
              /\ [j EXCEPT !.birb.birbVelocity = s.birb.birbVelocity] = s
              /\ JumpApply(j, v) = j
    /\ act.kind = "Jump" => mid.birb.birbVelocity = -act.arg[1]

\* a Jump folded after the bird had fallen and bounced: the prior velocity
\* was not 0
C9_Witness ==
    /\ act.kind = "Jump"
    /\ n.gravity >= 1
    /\ mid.birb.birbY # 200000
    /\ mid.birb.birbVelocity = -JUMP_VELOCITY

\* C10: handleCollisions on a non-invincible state with birbLive = 1 in which
\* a hit condition holds returns birbLive = 0, gameEnd = true, won = false,
\* winAt undefined, birbVelocity = 0, and birbY and invincibleUntil unchanged.
C10_FatalHit ==
    (~invincible(mid) /\ mid.birb.birbLive = 1 /\ anyHit(mid)) =>
        /\ s.birb.birbLive = 0
        /\ s.gameEnd
        /\ s.won = Some(FALSE)
        /\ s.winAt = undefined
        /\ s.birb.birbVelocity = 0
        /\ s.birb.birbY = mid.birb.birbY
        /\ s.invincibleUntil = mid.invincibleUntil
        /\ s.pipes = mid.pipes /\ s.score = mid.score /\ s.time = mid.time

\* the last life was lost on a bottom pipe rectangle while the win was recorded
C10_Witness ==
    /\ ~invincible(mid)
    /\ mid.birb.birbLive = 1
    /\ hitBottomPipe(mid)
    /\ mid.birb.birbVelocity # 0
    /\ IsDefined(mid.winAt)
    /\ s.birb.birbLive = 0

\* the clamp of the bounce branch: min(CANVAS_HEIGHT - HEIGHT/2, max(HEIGHT/2, y))
ClampY(y) == Min(CANVAS_HEIGHT - HEIGHT \div 2, Max(HEIGHT \div 2, y))

\* C11: handleCollisions on a non-invincible state with birbLive >= 2 whose
\* body top edge is at or above 0 reduces birbLive by exactly 1, sets a
\* positive (downward) birbVelocity within [BOUNCE_MIN, BOUNCE_MAX], sets
\* invincibleUntil to time + INVINCIBLE_MS, sets birbY to the old birbY plus the
\* new velocity clamped into [HEIGHT/2, CANVAS_HEIGHT - HEIGHT/2], and leaves
\* gameEnd unchanged.
C11_NonFatalTopHit ==
    (~invincible(mid) /\ mid.birb.birbLive >= 2 /\ mid.birb.birbY - HEIGHT \div 2 <= 0) =>
        /\ s.birb.birbLive = mid.birb.birbLive - 1
        /\ s.birb.birbVelocity > 0
        /\ BOUNCE_MIN <= s.birb.birbVelocity
        /\ s.birb.birbVelocity <= BOUNCE_MAX
        /\ s.invincibleUntil = Some(mid.time + INVINCIBLE_MS)
        /\ s.birb.birbY = ClampY(mid.birb.birbY + s.birb.birbVelocity)
        /\ s.gameEnd = mid.gameEnd

\* the bird climbed through the top boundary with three lives, after the
\* clock had advanced: the bounce speed is above BOUNCE_MIN
C11_Witness ==
    /\ ~invincible(mid)
    /\ mid.birb.birbLive = BIRB_LIVES
    /\ mid.birb.birbY - HEIGHT \div 2 <= 0
    /\ mid.time = TICK_RATE_MS
    /\ s.birb.birbLive = BIRB_LIVES - 1
    /\ s.birb.birbVelocity > BOUNCE_MIN

\* every pipe of st is resolved: flagged passed, or its right edge is left of
\* the bird's front edge
AllPipesResolved(st) ==
    \A i \in 1..Len(st.pipes) :
        \/ st.pipes[i].passed
        \/ st.pipes[i].x + PIPE_WIDTH < st.birb.birbX + WIDTH \div 2

\* C12: if TickPipes.apply, applied to a state of time T with gameEnd false
\* and winAt unset, leaves a non-empty pipe list in which every pipe is
\* resolved, it returns winAt = T and won = true and gameEnd still false; a
\* step makes gameEnd true with a life left (the win path) only if it is a
\* TickPipes step on a state with time - winAt >= WIN_DELAY_MS, and every
\* TickPipes step on such a state makes gameEnd true, so it ends at the
\* first of them and at no earlier step.
C12_WinSequencing ==
    [][ /\ ( /\ act'.kind = "TickPipes"
             /\ ~s.gameEnd
             /\ ~IsDefined(s.winAt)
             /\ Len(mid'.pipes) > 0
             /\ AllPipesResolved(mid') ) =>
                 /\ mid'.winAt = Some(s.time)
                 /\ mid'.won = Some(TRUE)
                 /\ ~mid'.gameEnd
        /\ (~s.gameEnd /\ s'.gameEnd /\ s'.birb.birbLive > 0) =>
                 /\ act'.kind = "TickPipes"
                 /\ IsDefined(s.winAt)
                 /\ s.time - Val(s.winAt) >= WIN_DELAY_MS
        /\ ( /\ act'.kind = "TickPipes"
             /\ IsDefined(s.winAt)
             /\ s.time - Val(s.winAt) >= WIN_DELAY_MS ) =>
                 mid'.gameEnd /\ s'.gameEnd
      ]_vars

\* the run ended through the win path at the first TickPipes step taken
\* when exactly WIN_DELAY_MS had passed since the stamp, with the resolved
\* pipe still in the list
C12_Witness ==
    /\ act.kind = "TickPipes"
    /\ s.gameEnd
    /\ s.birb.birbLive > 0
    /\ s.won = Some(TRUE)
    /\ IsDefined(s.winAt)
    /\ s.time - Val(s.winAt) = WIN_DELAY_MS
    /\ Len(s.pipes) > 0
    /\ AllPipesResolved(s)

\* C13: within one run (no step is folded after the first state with gameEnd
\* true), once winAt holds a timestamp no later step changes it to a different
\* timestamp, also when a TickPipes step again finds every pipe resolved.
C13_WinRecordedOnce ==
    [][ (~s.gameEnd /\ IsDefined(s.winAt)) =>
            /\ IsDefined(mid'.winAt) => mid'.winAt = s.winAt
            /\ IsDefined(s'.winAt) => s'.winAt = s.winAt
      ]_vars

\* a TickPipes step at a later time than the stamp found every pipe resolved
\* again and kept the stamp
C13_Witness ==
    /\ act.kind = "TickPipes"
    /\ ~s.gameEnd
    /\ Len(mid.pipes) > 0
    /\ AllPipesResolved(mid)
    /\ IsDefined(s.winAt)
    /\ Val(s.winAt) < s.time

\* the positions in b of the pipe with the id of p (none once it is dropped)
SameIdIn(b, p) == { j \in 1..Len(b.pipes) : b.pipes[j].id = p.id }

\* the conditions of the rule for pipe p of the state a before a TickPipes
\* step that shifts by dx
CrossingRule(a, dx, p) ==
    /\ ~p.passed
    /\ p.x + PIPE_WIDTH >= a.birb.birbX
    /\ p.x - dx + PIPE_WIDTH < a.birb.birbX
    /\ a.birb.birbY > p.gapY - p.gapH \div 2
    /\ a.birb.birbY < p.gapY + p.gapH \div 2
    /\ ~(IsDefined(a.invincibleUntil) /\ a.time < Val(a.invincibleUntil))

\* C14: in a TickPipes step a surviving pipe is newly marked passed, and
\* credits one point, if and only if it was not yet passed, its right edge was
\* at or right of birbX before the shift and is strictly left of it after,
\* birbY is strictly inside the gap and the state is not invincible. x strictly
\* decreases, so a pipe whose right edge is already left of birbX never meets
\* the condition again (at most one step per pipe), and a step that shifts by
\* less than birbX drops no pipe that has not yet crossed (no pipe's lifetime
\* ends without its one crossing step).
C14_EdgeCrossing ==
    [][ act'.kind = "TickPipes" =>
          LET dx == PIPE_SPEED_PX_PER_MS * act'.arg[1]
              I == 1..Len(s.pipes)
              Crossing == { i \in I : /\ CrossingRule(s, dx, s.pipes[i])
                                      /\ s.pipes[i].x - dx + PIPE_WIDTH > 0 }
          IN  /\ \A i \in I :
                    LET p == s.pipes[i]
                        J == SameIdIn(mid', p)
                    IN  /\ \A j \in J :
                              /\ mid'.pipes[j].x = p.x - dx
                              /\ mid'.pipes[j].x < p.x
                              /\ (mid'.pipes[j].passed /\ ~p.passed) <=> (i \in Crossing)
                        /\ p.x + PIPE_WIDTH < s.birb.birbX => ~CrossingRule(s, dx, p)
                        /\ (dx < s.birb.birbX /\ p.x + PIPE_WIDTH >= s.birb.birbX) => J # {}
              /\ mid'.score = s.score + Cardinality(Crossing)
              /\ s'.score = mid'.score
      ]_vars

\* a pipe whose right edge stood exactly on birbX before the step was
\* credited by it
C14_Witness ==
    /\ act.kind = "TickPipes"
    /\ \E j \in 1..Len(mid.pipes) :
          /\ mid.pipes[j].passed
          /\ mid.pipes[j].x + PIPE_WIDTH + PIPE_SPEED_PX_PER_MS * act.arg[1] = mid.birb.birbX
    /\ mid.score = 1

\* the positions of the pipes of a whose right edge is right of 0 after a
\* shift by dx
Survivors(a, dx) == { i \in 1..Len(a.pipes) : a.pipes[i].x - dx + PIPE_WIDTH > 0 }

\* the j-th smallest element of the set K of positions
Nth(K, j) == CHOOSE i \in K : Cardinality({ k \in K : k < i }) = j - 1

\* C15: TickPipes(dt).apply shifts every pipe's x left by exactly
\* dx = PIPE_SPEED_PX_PER_MS * dt, keeps exactly the pipes whose shifted right
\* edge is > 0, in their original relative order, and drops the others for
\* good: a dropped id never reappears (every id in the list is at most
\* objCount, a new id is objCount + 1, and objCount is never decremented). It
\* leaves the body, time, objCount and invincibleUntil unchanged.
C15_ShiftAndFilter ==
    /\ \A i \in 1..Len(s.pipes) :
          /\ s.pipes[i].id[2] >= 1
          /\ s.pipes[i].id[2] <= s.objCount
    /\ [][ /\ s'.objCount >= s.objCount
           /\ PipeIds(s') \subseteq PipeIds(s) \cup { PipeId(s.objCount + 1) }
           /\ act'.kind = "TickPipes" =>
                LET dx == PIPE_SPEED_PX_PER_MS * act'.arg[1]
                    K == Survivors(s, dx)
                IN  /\ Len(mid'.pipes) = Cardinality(K)
                    /\ \A j \in 1..Len(mid'.pipes) :
                          LET p == s.pipes[Nth(K, j)]
                              q == mid'.pipes[j]
                          IN  /\ q.x = p.x - dx
                              /\ [q EXCEPT !.x = p.x, !.passed = p.passed] = p
                    /\ mid'.birb = s.birb
                    /\ mid'.time = s.time
                    /\ mid'.objCount = s.objCount
                    /\ mid'.invincibleUntil = s.invincibleUntil
         ]_vars

\* a step dropped the first pipe of the list and kept the second, whose left
\* edge stands exactly on 0
C15_Witness ==
    /\ act.kind = "TickPipes"
    /\ s.objCount = 2
    /\ Len(mid.pipes) = 1
    /\ mid.pipes[1].id = PipeId(2)
    /\ mid.pipes[1].x = 0

\* the statement as written: a pipe created at x = 600 and advanced by 167
\* consecutive TickPipes steps of 3.6 px is removed from the list
C16_Original ==
    (s.objCount = 1 /\ n.tickPipes = 167) => Len(s.pipes) = 0

\* C16: a pipe created at x = 600 and advanced by consecutive TickPipes steps
\* with dx = 3.6 px (dt = 30 ms) has after 167 steps only its left edge off
\* screen (x = -1.2, right edge 58.8 > 0) and is still in the list; it stays
\* in the list through step 183 (right edge 1.2) and is removed by step 184
\* (right edge -2.4 <= 0).
C16_OffscreenAfter184 ==
    s.objCount = 1 =>
        /\ n.tickPipes <= 183 =>
              /\ Len(s.pipes) = 1
              /\ s.pipes[1].x = CANVAS_WIDTH - n.tickPipes * PIPE_SPEED_PX_PER_MS * TICK_RATE_MS
              /\ s.pipes[1].x + PIPE_WIDTH > 0
        /\ n.tickPipes = 167 => s.pipes[1].x = -1200
        /\ n.tickPipes >= 184 => Len(s.pipes) = 0

\* the 184th step removed the pipe
C16_Witness ==
    /\ act.kind = "TickPipes"
    /\ s.objCount = 1
    /\ n.tickPipes = 184
    /\ Len(s.pipes) = 0

\* C17: CreatePipe(gapY, gapH).apply appends exactly one pipe at the end of
\* the list with x = CANVAS_WIDTH, passed = false, createTime = the current
\* time, the given gap and id "pipe-" + (objCount + 1), increments objCount by
\* exactly 1, and leaves the existing pipes, the body, score, time and flags
\* unchanged.
C17_CreatePipeAppends ==
    [][ act'.kind = "CreatePipe" =>
          LET k == Len(s.pipes)
              q == mid'.pipes[k + 1]
          IN  /\ Len(mid'.pipes) = k + 1
              /\ \A i \in 1..k : mid'.pipes[i] = s.pipes[i]
              /\ q.x = CANVAS_WIDTH
              /\ q.passed = FALSE
              /\ q.createTime = s.time
              /\ q.gapY = act'.arg[1]
              /\ q.gapH = act'.arg[2]
              /\ q.id = << "pipe-", s.objCount + 1 >>
              /\ mid'.objCount = s.objCount + 1
              /\ [mid' EXCEPT !.pipes = s.pipes, !.objCount = s.objCount] = s
      ]_vars

\* a second pipe was appended behind one that had already moved and been
\* flagged passed, at a time after the start, with score and win stamp set
C17_Witness ==
    /\ act.kind = "CreatePipe"
    /\ Len(mid.pipes) = 2
    /\ mid.pipes[1].passed
    /\ mid.pipes[2].id = PipeId(2)
    /\ mid.pipes[2].createTime > 0
    /\ mid.score = 1
    /\ IsDefined(mid.winAt)

\* C18: time never decreases and changes only through Tick: Tick(dt).apply
\* yields time' = time + dt with every other field unchanged, while Jump,
\* Gravity, CreatePipe, TickPipes and handleCollisions leave time unchanged.
C18_TimeOnlyByTick ==
    [][ /\ act'.kind = "Tick" =>
              /\ mid'.time = s.time + act'.arg[1]
              /\ [mid' EXCEPT !.time = s.time] = s
        /\ act'.kind \in { "Jump", "Gravity", "CreatePipe", "TickPipes" } =>
              mid'.time = s.time
        /\ s'.time = mid'.time
        /\ s'.time >= s.time
      ]_vars

\* a second Tick, of another dt than the first, on a state that holds a pipe
\* and whose collision pass took a life
C18_Witness ==
    /\ act.kind = "Tick"
    /\ n.tick = 2
    /\ mid.time = TICK_RATE_MS + INVINCIBLE_MS
    /\ Len(mid.pipes) > 0
    /\ s.birb.birbLive < mid.birb.birbLive
    /\ s.time = mid.time

\* the four hit conditions, on the coordinates of the body and of the two
\* rectangles of each pipe
HitCondition(m) ==
    LET top == m.birb.birbY - HEIGHT \div 2
        bottom == m.birb.birbY + HEIGHT \div 2
        left == m.birb.birbX - WIDTH \div 2
        right == m.birb.birbX + WIDTH \div 2
    IN  \/ top <= 0
        \/ bottom >= CANVAS_HEIGHT
        \/ \E i \in 1..Len(m.pipes) :
              LET p == m.pipes[i]
                  topEnd == Max(0, p.gapY - p.gapH \div 2)
                  bottomStart == p.gapY + p.gapH \div 2
              IN  /\ left < p.x + PIPE_WIDTH
                  /\ right > p.x
                  /\ \/ top < topEnd /\ bottom > 0
                     \/ top < CANVAS_HEIGHT /\ bottom > bottomStart

\* the heights at which the body touches, or is one unit short of, a viewport
\* boundary or a gap edge of one of the pipes of m
TouchingY(m) ==
    { HEIGHT \div 2, HEIGHT \div 2 + 1,
      CANVAS_HEIGHT - HEIGHT \div 2, CANVAS_HEIGHT - HEIGHT \div 2 - 1 }
    \cup UNION { { m.pipes[i].gapY - m.pipes[i].gapH \div 2 + HEIGHT \div 2,
                   m.pipes[i].gapY - m.pipes[i].gapH \div 2 + HEIGHT \div 2 - 1,
                   m.pipes[i].gapY + m.pipes[i].gapH \div 2 - HEIGHT \div 2,
                   m.pipes[i].gapY + m.pipes[i].gapH \div 2 - HEIGHT \div 2 + 1 }
                 : i \in 1..Len(m.pipes) }

\* the x at which the first pipe touches, or is one unit inside, the body's
\* front or back edge
TouchingX(m) ==
    { m.birb.birbX + WIDTH \div 2, m.birb.birbX + WIDTH \div 2 - 1,
      m.birb.birbX - WIDTH \div 2 - PIPE_WIDTH, m.birb.birbX - WIDTH \div 2 - PIPE_WIDTH + 1 }

\* m, and m with the body or its first pipe moved to a touching position
CollisionProbes(m) ==
    { m }
    \cup { [m EXCEPT !.birb.birbY = y] : y \in TouchingY(m) }
    \cup IF Len(m.pipes) = 0 THEN { }
         ELSE { [m EXCEPT !.pipes[1].x = x, !.birb.birbY = y] :
                    x \in TouchingX(m), y \in TouchingY(m) \cup { m.birb.birbY } }

\* C19: for a non-invincible state of a run (a life left), handleCollisions
\* returns the state unchanged if and only if none of the four hit conditions
\* holds: body top edge <= 0, body bottom edge >= CANVAS_HEIGHT, strict
\* rectangle overlap with some pipe's top rectangle (y from 0 to
\* max(0, gapY - gapH/2)) or with its bottom rectangle (from gapY + gapH/2 to
\* the viewport bottom); rectangles that only touch along an edge do not
\* overlap.
C19_UnchangedIffNoHit ==
    /\ (~invincible(mid) /\ mid.birb.birbLive >= 1) => ((s = mid) <=> ~HitCondition(mid))
    /\ \A m \in CollisionProbes(mid) :
          (~invincible(m) /\ m.birb.birbLive >= 1) =>
              ((handleCollisions(m) = m) <=> ~HitCondition(m))

\* the collision pass returned its input while a pipe stood over the body,
\* which was inside the gap
C19_Witness ==
    /\ ~invincible(mid)
    /\ mid.birb.birbLive >= 1
    /\ \E i \in 1..Len(mid.pipes) :
          /\ mid.pipes[i].x < mid.birb.birbX + WIDTH \div 2
          /\ mid.pipes[i].x + PIPE_WIDTH > mid.birb.birbX - WIDTH \div 2
    /\ mid.birb.birbY # 200000
    /\ ~HitCondition(mid)
    /\ s = mid

\* C20: a run stops folding when gameEnd becomes true: every state of a run
\* in progress has gameEnd false and was delivered to the renderer; the
\* first state with gameEnd true is delivered too and ends the run; after it
\* no clock tick, jump or scheduled spawn is folded and no state is produced
\* or delivered until the reset key, once start$ is subscribed again, starts
\* a new run.
C20_RunStopsAtGameEnd ==
    /\ [](run.phase = "running" => (~s.gameEnd /\ run.shown = Some(s)))
    /\ []((run.runs >= 1 /\ run.phase # "running") => (s.gameEnd /\ run.shown = Some(s)))
    /\ [][ /\ (~s.gameEnd /\ s'.gameEnd) =>
                  (run'.shown = Some(s') /\ run'.phase # "running")
           /\ ( /\ << s, mid, act, n, flagged >>' # << s, mid, act, n, flagged >>
                /\ act'.kind # "seed" ) =>
                  /\ act'.kind \in { "Tick", "Gravity", "TickPipes", "Jump", "CreatePipe" }
                  /\ run.phase = "running"
                  /\ ~s.gameEnd
                  /\ run'.shown = Some(s')
           /\ s.gameEnd =>
                  \/ UNCHANGED << s, mid, act, n, flagged >> /\ run'.shown = run.shown
                  \/ /\ act'.kind = "seed"
                     /\ run.phase = "waiting"
                     /\ run'.runs = run.runs + 1
                     /\ ~s'.gameEnd
         ]_vars

\* a run ended by the last hit on the floor, before the timer of the second
\* schedule row was due, and the pipeline waits for the reset key
C20_Witness ==
    /\ run.phase = "waiting"
    /\ run.runs >= 1
    /\ s.gameEnd
    /\ s.birb.birbLive = 0
    /\ run.shown = Some(s)
    /\ run.spawned = { 1 }
    /\ s.objCount = 1
    /\ s.pipes[1].createTime = s.birb.createTime + 990
    /\ ~isNaN(s.pipes[1].gapY)
    /\ n.jump = 1

\* C21: runs are isolated under any interleaving of reset inputs, clock
\* ticks and spawn timers: the state a reset produces, whether the run before
\* had ended or was still in progress, is a fresh initial state (gameEnd false,
\* no pipes, objCount 0, score 0, full lives, velocity 0, winAt, won and
\* invincibleUntil unset); no subscription of an earlier run stays alive, and
\* the state of the run in progress holds only what its own clocks and spawn
\* timers produced: one pipe per row spawned in this run, each due within the
\* periods of this run, and a time of createTime + TICK_RATE_MS per Tick of
\* this run.
C21_RunsIsolated ==
    /\ [](run.live \subseteq { run.runs })
    /\ [](run.phase = "running" =>
            /\ run.live = { run.runs }
            /\ s.objCount = Cardinality(run.spawned)
            /\ \A i \in run.spawned : \A d \in Clocks :
                    Schedule[i].delay <= TICK_RATE_MS * (n[d] + 1)
            /\ s.time = s.birb.createTime + TICK_RATE_MS * n.tick
            /\ \A i \in 1..Len(s.pipes) : s.pipes[i].createTime >= s.birb.createTime)
    /\ [][ act'.kind = "seed" =>
              /\ run'.runs = run.runs + 1
              /\ ~s'.gameEnd
              /\ s'.pipes = << >>
              /\ s'.objCount = 0
              /\ s'.score = 0
              /\ s'.birb.birbLive = BIRB_LIVES
              /\ s'.birb.birbVelocity = 0
              /\ s'.winAt = undefined
              /\ s'.won = undefined
              /\ s'.invincibleUntil = undefined
              /\ s'.time = s'.birb.createTime
              /\ run'.spawned = {}
              /\ run'.shown = Some(s')
         ]_vars

\* a reset dropped a run in progress, and the new run has since spawned its
\* own first pipe and lost a life
C21_Witness ==
    /\ run.phase = "running"
    /\ run.runs = 2
    /\ run.cut
    /\ s.birb.createTime > 0
    /\ s.objCount = 1
    /\ s.pipes[1].createTime > s.birb.createTime
    /\ s.birb.birbLive < BIRB_LIVES

\* the rows of the schedule whose timer fired in the step
SpawnedNow == run'.spawned \ run.spawned

\* C22: in every run each schedule row produces at most one CreatePipe
\* action, fired no earlier than its delay after the run's start (no clock
\* firing that is due after the delay has been folded before it, so the state
\* time is less than one period short of the delay), with
\* gapY = gapCenterFraction * CANVAS_HEIGHT and
\* gapH = gapHeightFraction * CANVAS_HEIGHT; objCount never exceeds the number
\* of schedule rows, and equals it once every delay has elapsed in a run that
\* has not ended.
C22_OneSpawnPerRow ==
    /\ [](run.phase = "running" =>
            /\ s.objCount = Cardinality(run.spawned)
            /\ s.objCount <= Len(Schedule)
            /\ (\A i \in Rows : \E d \in Clocks : TICK_RATE_MS * n[d] > Schedule[i].delay)
                  => s.objCount = Len(Schedule))
    /\ [][ (run.phase = "running" /\ act'.kind # "seed") => s'.objCount <= Len(Schedule) ]_vars
    /\ [][ (act'.kind = "CreatePipe" /\ s' # s) =>
              /\ Cardinality(SpawnedNow) = 1
              /\ mid'.objCount = s.objCount + 1
              /\ \A i \in SpawnedNow :
                    LET q == mid'.pipes[Len(mid'.pipes)]
                    IN  /\ i \in Rows
                        /\ i \notin run.spawned
                        /\ \A d \in Clocks : TICK_RATE_MS * n[d] <= Schedule[i].delay
                        /\ q.createTime + TICK_RATE_MS > s.birb.createTime + Schedule[i].delay - TICK_RATE_MS
                        /\ ~isNaN(Schedule[i].gap) =>
                              q.gapY * 1000 = Schedule[i].gap * CANVAS_HEIGHT
                        /\ ~isNaN(Schedule[i].height) =>
                              q.gapH * 1000 = Schedule[i].height * CANVAS_HEIGHT
                        /\ q.id = PipeId(Cardinality(run.spawned) + 1)
         ]_vars

\* a run still in progress after the last delay (3 s) of its schedule holds
\* the pipes of both rows
C22_Witness ==
    /\ run.phase = "running"
    /\ Len(Schedule) = 2
    /\ Schedule[2].delay = 3000
    /\ n.tick > 100
    /\ s.objCount = 2
    /\ Len(s.pipes) = 2
    /\ s.pipes[2].gapY = 100000
    /\ s.pipes[2].gapH = 80000

\* a line of the file had a field that is no number, or too few fields
Malformed(rows) ==
    \E i \in 1..Len(rows) :
        isNaN(rows[i].gap) \/ isNaN(rows[i].height) \/ isNaN(rows[i].delay)

\* C23: malformed schedule input (a line with a non-numeric field or with the
\* wrong number of fields) is surfaced as a load-time failure: no run starts
\* on such input and no pipe is ever created from it.
C23_MalformedRejected ==
    /\ (run.phase = "running" => ~Malformed(Schedule))
    /\ \A i \in 1..Len(s.pipes) : ~isNaN(s.pipes[i].gapY) /\ ~isNaN(s.pipes[i].gapH)

\* C24: the win is recorded only after the final obstacle of the schedule is
\* cleared: in no state of a run is winAt defined (won = true) while some
\* schedule row has not yet spawned its pipe or some spawned pipe is still
\* unresolved, whatever the delays between rows.
C24_WinAfterLastObstacle ==
    (run.phase = "running" /\ IsDefined(s.winAt)) =>
        /\ run.spawned = Rows
        /\ AllPipesResolved(s)

\* the recording in progress, if any, and the recordings kept in sessionGhosts
Recordings ==
    { run.ghosts[i] : i \in 1..Len(run.ghosts) }
    \cup IF IsDefined(run.rec) THEN { Val(run.rec) } ELSE { }

\* C25: every frame pushed to the replay trail is (elapsed ms since the start
\* of the run that produced the frame, birbY): each recording's first frame
\* has t = 0 and each recording, in progress or stored in sessionGhosts, holds
\* frames of exactly one run, also when the reset input restarts a run before
\* gameEnd.
C25_OneRunPerRecording ==
    \A rec \in Recordings :
        /\ rec.first = Some(0)
        /\ Cardinality(rec.runs) = 1
        /\ rec.elapsed

\* the body of m is at or above the top boundary, or strictly overlaps the
\* top rectangle of a pipe
TopSideHit(m) ==
    \/ m.birb.birbY - HEIGHT \div 2 <= 0
    \/ \E i \in 1..Len(m.pipes) :
          /\ m.birb.birbX - WIDTH \div 2 < m.pipes[i].x + PIPE_WIDTH
          /\ m.birb.birbX + WIDTH \div 2 > m.pipes[i].x
          /\ m.birb.birbY - HEIGHT \div 2 < m.pipes[i].gapY - m.pipes[i].gapH \div 2

\* the body of m is at or below the bottom boundary, or strictly overlaps
\* the bottom rectangle of a pipe
BottomSideHit(m) ==
    \/ m.birb.birbY + HEIGHT \div 2 >= CANVAS_HEIGHT
    \/ \E i \in 1..Len(m.pipes) :
          /\ m.birb.birbX - WIDTH \div 2 < m.pipes[i].x + PIPE_WIDTH
          /\ m.birb.birbX + WIDTH \div 2 > m.pipes[i].x
          /\ m.birb.birbY + HEIGHT \div 2 > m.pipes[i].gapY + m.pipes[i].gapH \div 2
          /\ m.birb.birbY - HEIGHT \div 2 < CANVAS_HEIGHT

\* BOUNCE_MIN + ((time % 1000) / 1000) * (BOUNCE_MAX - BOUNCE_MIN)
BounceSpeed(m) == BOUNCE_MIN + ((m.time % 1000) * (BOUNCE_MAX - BOUNCE_MIN)) \div 1000

\* C26: on a non-fatal hit the bounce is directed away from what was hit: if
\* the top boundary or any top pipe rectangle was hit the new velocity is
\* +bounceMag (downward), if only the bottom boundary or bottom pipe
\* rectangles were hit it is -bounceMag; when a top-side and a bottom-side hit
\* hold in the same step, the top-side hit decides.
C26_BounceDirection ==
    \A m \in CollisionProbes(mid) :
        (~invincible(m) /\ m.birb.birbLive >= 2) =>
            LET v == handleCollisions(m).birb.birbVelocity
            IN  /\ TopSideHit(m) => v = BounceSpeed(m)
                /\ (BottomSideHit(m) /\ ~TopSideHit(m)) => v = -BounceSpeed(m)
                /\ (m = mid /\ (TopSideHit(m) \/ BottomSideHit(m))) =>
                      s.birb.birbVelocity = v

\* the body overlapped the top rectangle of one pipe and the bottom rectangle
\* of another in the same step, after the clock had advanced, and bounced
\* downward
C26_Witness ==
    /\ ~invincible(mid)
    /\ mid.birb.birbLive >= 2
    /\ TopSideHit(mid)
    /\ BottomSideHit(mid)
    /\ mid.time % 1000 # 0
    /\ s.birb.birbVelocity = BounceSpeed(mid)
    /\ s.birb.birbVelocity > BOUNCE_MIN

\* C27: in every reachable state the pipe list is ordered by non-decreasing x
\* (insertion order equals spatial order), every pipe has
\* -PIPE_WIDTH < x <= CANVAS_WIDTH, pipe ids are pairwise distinct and
\* strictly increasing along the list, and every id number is <= objCount.
C27_PipeListOrdered ==
    /\ \A i \in 1..Len(s.pipes) :
          /\ -PIPE_WIDTH < s.pipes[i].x
          /\ s.pipes[i].x <= CANVAS_WIDTH
          /\ s.pipes[i].id[1] = "pipe-"
          /\ s.pipes[i].id[2] <= s.objCount
    /\ \A i, j \in 1..Len(s.pipes) :
          i < j => /\ s.pipes[i].x <= s.pipes[j].x
                   /\ s.pipes[i].id[2] < s.pipes[j].id[2]

\* two pipes at different x, the older one further left, both moved since
\* the second was created
C27_Witness ==
    /\ Len(s.pipes) = 2
    /\ s.objCount = 2
    /\ s.pipes[1].id = PipeId(1)
    /\ s.pipes[2].id = PipeId(2)
    /\ s.pipes[1].x < s.pipes[2].x
    /\ s.pipes[2].x < CANVAS_WIDTH

\* C28: every state the reducer returns with lives left and no invincibility
\* running (invincibleUntil undefined or time >= invincibleUntil) is free of
\* collisions: HEIGHT/2 < birbY < CANVAS_HEIGHT - HEIGHT/2 and the body
\* rectangle overlaps neither rectangle of any pipe.
C28_CollisionFree ==
    (s.birb.birbLive > 0
     /\ (~IsDefined(s.invincibleUntil) \/ s.time >= Val(s.invincibleUntil))) =>
        /\ HEIGHT \div 2 < s.birb.birbY
        /\ s.birb.birbY < CANVAS_HEIGHT - HEIGHT \div 2
        /\ \A i \in 1..Len(s.pipes) : \A k \in 1..2 :
              ~overlapAABB(birdRect(s), pipeRects(s.pipes[i])[k])

\* a returned state whose invincibility has run out with lives left, the
\* bird level with a pipe and inside its gap
C28_Witness ==
    /\ act.kind # "seed"
    /\ IsDefined(s.invincibleUntil)
    /\ s.time >= Val(s.invincibleUntil)
    /\ s.birb.birbLive > 0
    /\ s.birb.birbLive < BIRB_LIVES
    /\ \E i \in 1..Len(s.pipes) :
          /\ s.pipes[i].x < birdRect(s).x + WIDTH
          /\ s.pipes[i].x + PIPE_WIDTH > birdRect(s).x

\* C29: any two steps of a run that lower birbLive are at least INVINCIBLE_MS
\* of state time apart (the later at t2 >= t1 + INVINCIBLE_MS), and no step
\* lowers birbLive by more than one.
C29_LossesSeparated ==
    /\ [](\A i, j \in 1..Len(losses) :
            i < j => losses[j] >= losses[i] + INVINCIBLE_MS)
    /\ [][ s'.birb.birbLive >= s.birb.birbLive - 1 \/ act'.kind = "seed" ]_vars

\* the second life is lost in the first step after the window of the first
\* loss ran out
C29_Witness ==
    /\ Len(losses) = 2
    /\ losses[2] = losses[1] + INVINCIBLE_MS
    /\ s.time = losses[2]
    /\ s.birb.birbLive = BIRB_LIVES - 2

\* C30: in every state reached from initialState by folding Jump(JUMP_VELOCITY),
\* Gravity, Tick, CreatePipe and TickPipes, -BOUNCE_MAX <= birbVelocity <=
\* MAX_FALL_RATE, before and after the collision pass.
C30_VelocityBounded ==
    /\ -BOUNCE_MAX <= s.birb.birbVelocity
    /\ s.birb.birbVelocity <= MAX_FALL_RATE
    /\ -BOUNCE_MAX <= mid.birb.birbVelocity
    /\ mid.birb.birbVelocity <= MAX_FALL_RATE

\* a Gravity step at the terminal rate carried the bird into the bottom
\* boundary and the bounce turned the velocity upwards
C30_Witness ==
    /\ act.kind = "Gravity"
    /\ mid.birb.birbVelocity = MAX_FALL_RATE
    /\ s.birb.birbVelocity <= -BOUNCE_MIN
    /\ s.birb.birbLive = BIRB_LIVES - 1

\* the step from s to s' is the one that ends the run
RunEnds == ~s.gameEnd /\ s'.gameEnd

\* C31: in the first state of a run with gameEnd = true, won = true exactly
\* when birbLive > 0 and won = false exactly when birbLive = 0; the text shown
\* is "You Win!" only when the run ended in a TickPipes step on an elapsed win
\* delay with a life left, and "Game Over" only when the step took the last
\* life, also when that hit falls in the win delay or in the step in which
\* the delay runs out.
C31_FinalStateWon ==
    [][ RunEnds =>
          /\ (s'.won = Some(TRUE)) <=> (s'.birb.birbLive > 0)
          /\ (s'.won = Some(FALSE)) <=> (s'.birb.birbLive = 0)
          /\ (gameOverText(s') = "You Win!") =>
                (act'.kind = "TickPipes" /\ endAfterWin(s) /\ s'.birb.birbLive > 0)
          /\ (gameOverText(s') = "Game Over") =>
                (s.birb.birbLive = 1 /\ s'.birb.birbLive = 0) ]_vars

\* the TickPipes step on an elapsed win delay carried a pipe into the bird,
\* which lost its last life: the run ended as a loss
C31_Witness ==
    /\ act.kind = "TickPipes"
    /\ mid.gameEnd
    /\ mid.won = Some(TRUE)
    /\ IsDefined(mid.winAt)
    /\ mid.birb.birbLive = 1
    /\ s.gameEnd
    /\ s.birb.birbLive = 0
    /\ s.won = Some(FALSE)

\* C32: a run on a non-empty schedule of finite delays, whose clocks and spawn
\* timers keep firing, reaches a state with gameEnd = true, by the loss of the
\* last life or by the win delay running out, whatever the player presses.
C32_RunEventuallyEnds == (run.phase = "running") ~> s.gameEnd

\* a run whose player kept pressing Space ended through the win delay, after
\* every row of its schedule had spawned
C32_Witness ==
    /\ run.runs = 1
    /\ run.phase = "loading"
    /\ Len(Schedule) > 0
    /\ run.spawned = Rows
    /\ s.gameEnd
    /\ s.won = Some(TRUE)
    /\ act.kind = "TickPipes"
    /\ n.jump > 0

\* the body rectangle of st overlaps a rectangle of its i-th pipe
BodyOverlapsPipe(st, i) ==
    \E k \in 1..2 : overlapAABB(birdRect(st), pipeRects(st.pipes[i])[k])

\* the step from s to s' is a TickPipes step of the default period that
\* raises the score
CreditStep ==
    /\ act'.kind = "TickPipes"
    /\ act'.arg = << TICK_RATE_MS >>
    /\ s'.score > s.score

\* C33 (as stated): no reducer step both raises the score and lowers birbLive.
C33_Original ==
    [][ ~(s'.score > s.score /\ s'.birb.birbLive < s.birb.birbLive) ]_vars

\* C33 (amended): in a TickPipes step of the default period that marks a pipe
\* passed and raises the score, that pipe does not overlap the body in the
\* state the collision pass examines, and the pass finds no boundary hit; if
\* birbLive goes down in the step, another pipe overlaps the body.
C33_ScoredPipeTakesNoLife ==
    [][ CreditStep =>
          /\ \A i \in 1..Len(mid'.pipes) :
                mid'.pipes[i].id \in NewlyPassed(s, mid') => ~BodyOverlapsPipe(mid', i)
          /\ ~hitTopBound(mid')
          /\ ~hitBottomBound(mid')
          /\ s'.birb.birbLive < s.birb.birbLive =>
                \E j \in 1..Len(mid'.pipes) :
                    /\ mid'.pipes[j].id \notin NewlyPassed(s, mid')
                    /\ BodyOverlapsPipe(mid', j) ]_vars

\* a TickPipes step of the default period credited the point of the first
\* pipe, whose right edge had just crossed birbX, and took a life, because
\* the second pipe reached the body in the same step
C33_Witness ==
    /\ act = [ kind |-> "TickPipes", arg |-> << TICK_RATE_MS >> ]
    /\ Len(mid.pipes) = 2
    /\ mid.pipes[1].passed
    /\ mid.pipes[1].x + PIPE_WIDTH < mid.birb.birbX
    /\ mid.pipes[1].x + PIPE_WIDTH + PIPE_SPEED_PX_PER_MS * TICK_RATE_MS >= mid.birb.birbX
    /\ ~BodyOverlapsPipe(mid, 1)
    /\ BodyOverlapsPipe(mid, 2)
    /\ mid.score = 1
    /\ mid.birb.birbLive = BIRB_LIVES
    /\ s.birb.birbLive = BIRB_LIVES - 1
    /\ s.score = 1

====
